---- MODULE Spec2Model ----
(***************************************************************************)
(* A model of these parts of lighthouse:                                   *)
(*                                                                         *)
(*  - the FirstInteractive computed artifact                               *)
(*    (lighthouse-core/gather/computed/first-interactive.js):              *)
(*    getRequiredWindowSizeInMs, getTaskClustersInWindow, findQuietWindow, *)
(*    computeWithArtifacts and compute_;                                   *)
(*  - its "group" variant (unnamed/part_001): getTaskGroupsInWindow and    *)
(*    findQuietWindow;                                                     *)
(*  - the report generator ReportGeneratorV2 (unnamed/part_000):           *)
(*    arithmeticMean, generateReportJson, replaceStrings and               *)
(*    generateReportHtml;                                                  *)
(*  - the artifact cache, from its contract in spec.md 4.3.                *)
(*                                                                         *)
(* All times are integer milliseconds, as in the traces the tests use.     *)
(* JS array indices are kept 0-based in the operators' arguments; the      *)
(* TLA+ sequence element of JS index i is seq[i + 1].                      *)
(***************************************************************************)
EXTENDS Integers, Sequences, FiniteSets, TLC

(***************************************************************************)
(* Constants of first-interactive.js                                       *)
(***************************************************************************)
LONG_TASK_THRESHOLD == 50

MAX_TASK_CLUSTER_DURATION == 250

MIN_TASK_CLUSTER_PADDING == 1000

MIN_TASK_CLUSTER_FMP_DISTANCE == 5000

MAX_QUIET_WINDOW_SIZE == 5000

TRACE_BUSY_MSG == "trace was busy the entire time"

SHORT_TRACE_MSG == "trace not at least 5 seconds longer than FMP"

(***************************************************************************)
(* Bounds and input sets of the model                                      *)
(***************************************************************************)
\* the longest list of top-level events / long tasks that is enumerated
MaxTasks == 3

\* traceOfTab.timings.firstMeaningfulPaint
FMPs == {1000}

\* traceOfTab.timestamps.navigationStart
NavStarts == {100}

\* traceOfTab.timings.domContentLoaded: before FMP, and after some candidates
DCLs == {500, 7000}

\* traceOfTab.timings.traceEnd: one ms short of FMP + 5000, exactly FMP + 5000,
\* just past the window of a task ending at FMP + 50, in the middle, and past
\* every window
TraceEnds == {5999, 6000, 6042, 10200, 14000}

\* task start times: before FMP, at FMP, 1 ms inside / exactly at the
\* FMP + 5000 distance, exactly 1000 ms / 1001 ms after 6000, and late
TaskStarts == {900, 1000, 5999, 6000, 7000, 7001, 9000}

\* task durations: empty, the long-task threshold, the maximal cluster
\* duration and 1 ms more
TaskDurations == {0, 50, 250, 251}

\* the windowEnd arguments of the direct calls of getTaskClustersInWindow
WindowEnds == {6000, 6042, 8500, 10195}

Task(s, d) == [start |-> s, end |-> s + d]

AllTasks == {Task(s, d) : s \in TaskStarts, d \in TaskDurations}

\* sorted ascending by start and not overlapping, as the top-level slices of
\* one thread are
IsOrdered(tasks) ==
  \A k \in 1..(Len(tasks) - 1) :
    /\ tasks[k].start <= tasks[k + 1].start
    /\ tasks[k].end <= tasks[k + 1].start

TaskLists ==
  {tasks \in UNION {[1..n -> AllTasks] : n \in 0..MaxTasks} : IsOrdered(tasks)}

(***************************************************************************)
(* getRequiredWindowSizeInMs                                               *)
(*                                                                         *)
(* (4 * Math.exp(-.045 * t / 1000) + 1) * 1000 is not an integer except at *)
(* t = 0.  The code only ever adds it to an integer windowStart and        *)
(* compares the sum with integers (windowEnd > traceEnd,                   *)
(* task.start < windowEnd + 1000, cluster.start < windowEnd), and for an   *)
(* integer x and a real w:  x < w  <=>  x < ceil(w)  and                   *)
(* w > x  <=>  ceil(w) > x.  So the model carries ceil(w); the table holds *)
(* ceil of the IEEE double the expression evaluates to, for every          *)
(* t = task.end - FMP the inputs above produce.                            *)
(***************************************************************************)
WindowSizeTable ==
  (-100 :> 5019) @@ (-50 :> 5010) @@ (0 :> 5000) @@ (50 :> 4992) @@
  (150 :> 4974) @@ (151 :> 4973) @@ (250 :> 4956) @@ (251 :> 4956) @@
  (4999 :> 4195) @@ (5000 :> 4195) @@ (5049 :> 4188) @@ (5050 :> 4187) @@
  (5249 :> 4159) @@ (5250 :> 4159) @@ (5251 :> 4159) @@
  (6000 :> 4054) @@ (6001 :> 4054) @@ (6050 :> 4047) @@ (6051 :> 4047) @@
  (6250 :> 4020) @@ (6251 :> 4020) @@ (6252 :> 4020) @@
  (8000 :> 3791) @@ (8050 :> 3785) @@ (8250 :> 3760) @@ (8251 :> 3760)

getRequiredWindowSizeInMs(t) == WindowSizeTable[t]

(***************************************************************************)
(* getTaskClustersInWindow                                                 *)
(***************************************************************************)
\* line 91
couldTaskBelongToCluster(tasks, i, clusteringWindowEnd) ==
  /\ i + 1 <= Len(tasks)
  /\ tasks[i + 1].start < clusteringWindowEnd

\* a faulty variant of startsNewCluster: a gap of exactly the padding splits
startsNewCluster_AtPadding(task, hasPrevious, previousTaskEndTime) ==
  \/ ~hasPrevious
  \/ task.start - previousTaskEndTime >= MIN_TASK_CLUSTER_PADDING

\* line 96; previousTaskEndTime is -Infinity until a first task was seen
startsNewCluster(task, hasPrevious, previousTaskEndTime) ==
  \/ ~hasPrevious
  \/ task.start - previousTaskEndTime > MIN_TASK_CLUSTER_PADDING

\* The for loop of lines 92-110; limit is clusteringWindowEnd.
\* currentCluster = <<>> stands for null: a cluster gets its first task in
\* the iteration that creates it.
RECURSIVE clusterLoop(_, _, _, _, _, _, _)
clusterLoop(tasks, i, limit, hasPrevious, previousTaskEndTime, currentCluster, clusters) ==
  IF couldTaskBelongToCluster(tasks, i, limit)
  THEN LET task == tasks[i + 1]
           fresh == startsNewCluster(task, hasPrevious, previousTaskEndTime)
           pushed == IF fresh /\ currentCluster # <<>>
                     THEN Append(clusters, currentCluster)
                     ELSE clusters
           cluster == IF fresh THEN <<task>> ELSE Append(currentCluster, task)
       IN clusterLoop(tasks, i + 1, limit, TRUE, task.end, cluster, pushed)
  ELSE IF currentCluster # <<>>
       THEN Append(clusters, currentCluster)
       ELSE clusters

\* lines 114-119
clusterInfo(tasks) ==
  [start |-> tasks[1].start,
   end |-> tasks[Len(tasks)].end,
   duration |-> tasks[Len(tasks)].end - tasks[1].start,
   tasks |-> tasks]

getTaskClustersInWindow(tasks, startIndex, windowEnd) ==
  LET clusteringWindowEnd == windowEnd + MIN_TASK_CLUSTER_PADDING
      clusters == clusterLoop(tasks, startIndex, clusteringWindowEnd,
                              FALSE, 0, <<>>, <<>>)
      withInfo == [k \in 1..Len(clusters) |-> clusterInfo(clusters[k])]
  IN SelectSeq(withInfo, LAMBDA cluster : cluster.start < windowEnd)

(***************************************************************************)
(* findQuietWindow: the predicates of lines 149-151                        *)
(***************************************************************************)
isTooCloseToFMP(cluster, fmp) ==
  cluster.start < fmp + MIN_TASK_CLUSTER_FMP_DISTANCE

\* a faulty variant of isTooLong: the maximal duration itself is too long
isTooLong_Inclusive(cluster) == cluster.duration >= MAX_TASK_CLUSTER_DURATION

isTooLong(cluster) == cluster.duration > MAX_TASK_CLUSTER_DURATION

isBadCluster(cluster, fmp) == isTooCloseToFMP(cluster, fmp) \/ isTooLong(cluster)

\* taskClusters.find(isBadCluster) is truthy
hasBadTaskClusters(taskClusters, fmp) ==
  \E k \in 1..Len(taskClusters) : isBadCluster(taskClusters[k], fmp)

\* a faulty variant of isQuietFromFMP: the comparison of line 132 turned around
isQuietFromFMP_Reversed(tasks, fmp) ==
  Len(tasks) = 0 \/ tasks[1].start < fmp + MAX_QUIET_WINDOW_SIZE

\* lines 131-132: the window that starts at FMP is quiet
isQuietFromFMP(tasks, fmp) ==
  Len(tasks) = 0 \/ tasks[1].start > fmp + MAX_QUIET_WINDOW_SIZE

\* a faulty variant of isTraceTooShortForWindow: the window's start is compared
isTraceTooShortForWindow_Start(windowEnd, end) ==
  windowEnd - MAX_QUIET_WINDOW_SIZE > end

\* line 145: the trace ends before the window does
isTraceTooShortForWindow(windowEnd, end) == windowEnd > end

\* a faulty variant of isShortTrace: a trace exactly 5000 ms longer is rejected too
isShortTrace_Inclusive(end, fmp) == end - fmp <= MAX_QUIET_WINDOW_SIZE

\* a faulty variant of isShortTrace: the length of the trace is not checked
isShortTrace_Unchecked(end, fmp) == FALSE

\* line 176
isShortTrace(end, fmp) == end - fmp < MAX_QUIET_WINDOW_SIZE

\* line 181
isLongTaskAfterFMP(evt, fmp) ==
  evt.end - evt.start >= LONG_TASK_THRESHOLD /\ evt.end > fmp

\* Math.max
Max(a, b) == IF a >= b THEN a ELSE b

\* a faulty variant of valueInMs: the earlier of the two
valueInMs_Min(candidate, dcl) == IF candidate <= dcl THEN candidate ELSE dcl

\* line 184
valueInMs(candidate, dcl) == Max(candidate, dcl)

(***************************************************************************)
(* The "group" variant of the artifact (unnamed/part_001)                  *)
(*                                                                         *)
(* part_001 has its own constants MAX_TASK_GROUP_DURATION,                 *)
(* MIN_TASK_GROUP_PADDING and MIN_TASK_GROUP_FMP_DISTANCE; its             *)
(* MAX_QUIET_WINDOW_SIZE and TRACE_BUSY_MSG (lines 28-29) have the names   *)
(* and values of those of first-interactive.js, and its                    *)
(* getRequiredWindowSizeInMs (lines 68-72) is the same expression, so the  *)
(* same table of values stands for it.  Its functions that share a name    *)
(* with one of first-interactive.js get the suffix Groups or Group.        *)
(***************************************************************************)
MAX_TASK_GROUP_DURATION == 250

MIN_TASK_GROUP_PADDING == 1000

MIN_TASK_GROUP_FMP_DISTANCE == 5000

getRequiredWindowSizeInMsGroups(t) == WindowSizeTable[t]

\* line 88
couldTaskBeInGroup(tasks, i, considerationWindowEnd) ==
  /\ i + 1 <= Len(tasks)
  /\ tasks[i + 1].start < considerationWindowEnd

\* line 93; lastEndTime is -Infinity until a first task was seen
startsNewGroup(task, seen, lastEndTime) ==
  IF seen THEN task.start - lastEndTime > MIN_TASK_GROUP_PADDING ELSE TRUE

\* The for loop of lines 89-103 and lines 105-107; limit is
\* considerationWindowEnd, currentGroup = <<>> stands for null.
RECURSIVE groupLoop(_, _, _, _, _, _, _)
groupLoop(tasks, i, limit, seen, lastEndTime, currentGroup, groups) ==
  IF ~couldTaskBeInGroup(tasks, i, limit)
  THEN IF currentGroup = <<>> THEN groups ELSE Append(groups, currentGroup)
  ELSE LET task == tasks[i + 1]
       IN IF startsNewGroup(task, seen, lastEndTime)
          THEN groupLoop(tasks, i + 1, limit, TRUE, task.end, <<task>>,
                         IF currentGroup = <<>> THEN groups
                         ELSE Append(groups, currentGroup))
          ELSE groupLoop(tasks, i + 1, limit, TRUE, task.end,
                         Append(currentGroup, task), groups)

\* lines 111-116
groupInfo(tasks) ==
  LET start == tasks[1].start
      end == tasks[Len(tasks)].end
  IN [start |-> start, end |-> end, duration |-> end - start, tasks |-> tasks]

\* lines 80-119
getTaskGroupsInWindow(tasks, startIndex, windowEnd) ==
  LET considerationWindowEnd == windowEnd + MIN_TASK_GROUP_PADDING
      groups == groupLoop(tasks, startIndex, considerationWindowEnd,
                          FALSE, 0, <<>>, <<>>)
      withInfo == [k \in 1..Len(groups) |-> groupInfo(groups[k])]
  IN SelectSeq(withInfo, LAMBDA group : group.start < windowEnd)

\* a faulty variant of isTooCloseToFMPGroup: FMP + 5000 itself is too close
isTooCloseToFMPGroup_Inclusive(group, fmp) ==
  group.start <= fmp + MIN_TASK_GROUP_FMP_DISTANCE

\* line 146
isTooCloseToFMPGroup(group, fmp) == group.start < fmp + MIN_TASK_GROUP_FMP_DISTANCE

\* line 147
isTooLongGroup(group) == group.duration > MAX_TASK_GROUP_DURATION

\* line 148
isBadTaskGroup(group, fmp) == isTooCloseToFMPGroup(group, fmp) \/ isTooLongGroup(group)

\* line 151: taskGroups.find(isBadTaskGroup) is truthy
hasBadTaskGroups(taskGroups, fmp) ==
  \E k \in 1..Len(taskGroups) : isBadTaskGroup(taskGroups[k], fmp)

\* what a call comes to: a returned value, or the message of the Error thrown
Returns(value) == [thrown |-> "", value |-> value]

Throws(message) == [thrown |-> message, value |-> -1]

\* the for loop of lines 135-156, from the candidate of JS index k on, and
\* line 158
RECURSIVE findQuietWindowGroupsFrom(_, _, _, _)
findQuietWindowGroupsFrom(fmp, end, tasks, k) ==
  IF k < Len(tasks)
  THEN LET event == tasks[k + 1]
           windowStart == event.end
           windowSize == getRequiredWindowSizeInMsGroups(windowStart - fmp)
           windowEnd == windowStart + windowSize
           taskGroups == getTaskGroupsInWindow(tasks, k + 1, windowEnd)
       IN IF windowEnd > end
          THEN Throws(TRACE_BUSY_MSG)
          ELSE IF ~hasBadTaskGroups(taskGroups, fmp)
               THEN Returns(windowStart)
               ELSE findQuietWindowGroupsFrom(fmp, end, tasks, k + 1)
  ELSE Throws(TRACE_BUSY_MSG)

\* findQuietWindow of part_001, lines 127-159
findQuietWindowGroups(fmp, end, tasks) ==
  IF Len(tasks) = 0 \/ tasks[1].start > fmp + MAX_QUIET_WINDOW_SIZE
  THEN Returns(fmp)
  ELSE findQuietWindowGroupsFrom(fmp, end, tasks, 0)

(***************************************************************************)
(* JavaScript numbers and values, as far as ReportGeneratorV2 uses them    *)
(*                                                                         *)
(* A number is NaN, +Infinity, -Infinity or a finite value; a finite value *)
(* is kept as a reduced fraction n / d with d > 0, so that the quotient of *)
(* arithmeticMean is not rounded.  The sign of zero is not kept: the       *)
(* running sums of arithmeticMean start at +0 and x + (-0) = x, so the     *)
(* divisor is never -0, and -0 || 0 is 0.                                  *)
(***************************************************************************)
Abs(x) == IF x < 0 THEN -x ELSE x

RECURSIVE Gcd(_, _)
Gcd(a, b) == IF b = 0 THEN a ELSE Gcd(b, a % b)

Sign(x) == IF x < 0 THEN -1 ELSE IF x > 0 THEN 1 ELSE 0

NaN == [kind |-> "nan", n |-> 0, d |-> 1]

\* +Infinity for sign 1, -Infinity for sign -1
Infinity(sign) == [kind |-> "inf", n |-> sign, d |-> 1]

\* the finite number n / d, d # 0
Frac(n, d) ==
  LET g == Gcd(Abs(n), Abs(d))
  IN [kind |-> "fin", n |-> (Sign(d) * n) \div g, d |-> Abs(d) \div g]

Num(n) == Frac(n, 1)

\* a + b
NumAdd(a, b) ==
  IF a.kind = "nan" \/ b.kind = "nan" THEN NaN
  ELSE IF a.kind = "inf" /\ b.kind = "inf"
       THEN IF a.n = b.n THEN a ELSE NaN
  ELSE IF a.kind = "inf" THEN a
  ELSE IF b.kind = "inf" THEN b
  ELSE Frac(a.n * b.d + b.n * a.d, a.d * b.d)

\* a * b
NumMul(a, b) ==
  IF a.kind = "nan" \/ b.kind = "nan" THEN NaN
  ELSE IF a.kind = "inf" \/ b.kind = "inf"
       THEN IF a.n = 0 \/ b.n = 0 THEN NaN ELSE Infinity(Sign(a.n) * Sign(b.n))
  ELSE Frac(a.n * b.n, a.d * b.d)

\* a / b
NumDiv(a, b) ==
  IF a.kind = "nan" \/ b.kind = "nan" THEN NaN
  ELSE IF a.kind = "inf"
       THEN IF b.kind = "inf" THEN NaN
            ELSE Infinity(IF b.n < 0 THEN -a.n ELSE a.n)
  ELSE IF b.kind = "inf" THEN Num(0)
  ELSE IF b.n = 0
       THEN IF a.n = 0 THEN NaN ELSE Infinity(Sign(a.n))
  ELSE Frac(a.n * b.d, a.d * b.n)

\* x || 0 for a number x: NaN and 0 are falsy
OrZero(x) == IF x.kind = "nan" \/ (x.kind = "fin" /\ x.n = 0) THEN Num(0) ELSE x

\* JS values: every field is present in every value, the type says which
\* one counts
JSUndefined == [type |-> "undefined", bool |-> FALSE, num |-> NaN, str |-> ""]

JSNull == [type |-> "null", bool |-> FALSE, num |-> NaN, str |-> ""]

JSBoolean(b) == [type |-> "boolean", bool |-> b, num |-> NaN, str |-> ""]

JSNumber(x) == [type |-> "number", bool |-> FALSE, num |-> x, str |-> ""]

JSString(s) == [type |-> "string", bool |-> FALSE, num |-> NaN, str |-> s]

\* Number(v); the strings of the model are empty or not the text of a number
ToNumber(v) ==
  CASE v.type = "number" -> v.num
    [] v.type = "boolean" -> IF v.bool THEN Num(1) ELSE Num(0)
    [] v.type = "null" -> Num(0)
    [] v.type = "undefined" -> NaN
    [] v.type = "string" -> IF v.str = "" THEN Num(0) ELSE NaN

(***************************************************************************)
(* ReportGeneratorV2.arithmeticMean                                        *)
(***************************************************************************)
\* lines 38-45: the callback of reduce
meanStep(result, item) ==
  LET score == OrZero(ToNumber(item.score))
      weight == OrZero(ToNumber(item.weight))
  IN [weight |-> NumAdd(result.weight, weight),
      sum |-> NumAdd(result.sum, NumMul(score, weight))]

\* items.reduce(..., {weight: 0, sum: 0}), from the item of JS index k on
RECURSIVE meanReduce(_, _, _)
meanReduce(items, k, result) ==
  IF k >= Len(items) THEN result
  ELSE meanReduce(items, k + 1, meanStep(result, items[k + 1]))

\* a faulty variant of meanQuotient: the sum is not divided by the weight
meanQuotient_Sum(results) == OrZero(results.sum)

\* line 47
meanQuotient(results) == OrZero(NumDiv(results.sum, results.weight))

arithmeticMean(items) ==
  meanQuotient(meanReduce(items, 0, [weight |-> Num(0), sum |-> Num(0)]))

(***************************************************************************)
(* ReportGeneratorV2.generateReportJson: lines 107-110                     *)
(***************************************************************************)
\* a faulty variant of auditScoreOf: without the special case of lines 108-110
auditScoreOf_Cast(score) == OrZero(ToNumber(score))

auditScoreOf(score) ==
  IF score.type = "boolean"
  THEN IF score.bool THEN Num(100) ELSE Num(0)
  ELSE OrZero(ToNumber(score))

(***************************************************************************)
(* Inputs of the report generator                                          *)
(***************************************************************************)
\* the longest items array given to arithmeticMean directly
MaxItems == 3

\* the longest audits array of a category of the configuration
MaxAudits == 2

\* Object.keys(config.categories), in order
CategoryIds == <<"pwa", "perf">>

\* item.score of the direct calls of arithmeticMean
ItemScores == {JSUndefined, JSNumber(Num(0)), JSNumber(Num(50)), JSNumber(Num(100))}

\* item.weight of the direct calls of arithmeticMean
ItemWeights ==
  {JSUndefined, JSNumber(Num(-1)), JSNumber(Num(0)), JSNumber(Num(1)),
   JSNumber(Num(2))}

Items == [score : ItemScores, weight : ItemWeights]

\* the weight of an audit in config.categories[id].audits
AuditWeights ==
  {JSNumber(Num(-1)), JSNumber(Num(0)), JSNumber(Num(1)), JSNumber(Num(3))}

\* the weight of a category in config.categories
CategoryWeights == {JSNumber(Num(-1)), JSNumber(Num(1)), JSNumber(Num(2))}

\* result.score of an audit result
RawScores ==
  {JSBoolean(TRUE), JSBoolean(FALSE), JSNull, JSUndefined, JSString("n/a"),
   JSNumber(Num(-50)), JSNumber(Num(150))}

\* resultsByAuditId[audit.id]: <<>> is undefined (no entry), <<r>> the result r
AuditResults == {<<>>} \cup {<<[score |-> raw]>> : raw \in RawScores}

TYPE_ERROR_MSG == "Cannot read property 'score' of undefined"

(***************************************************************************)
(* State of the report generator                                           *)
(***************************************************************************)
VARIABLES
  rgPc,        \* where the call of the report generator stands
  items,       \* the argument of a direct call of arithmeticMean
  meanResult,  \* its return value, <<>> before it returns
  category,    \* the category being mapped: <<[id]>>, <<>> if none
  audits,      \* the audits mapped so far for it: [weight, score]
  mapped,      \* the audit mapped last: <<[weight, result, score]>>
  categories,  \* the categories mapped so far: [id, score], and in the end
               \* [id, weight, score]
  report,      \* the returned report: <<[score]>>, <<>> before it returns
  rgThrown     \* the message of the error thrown, "" if none

rgVars == <<rgPc, items, meanResult, category, audits, mapped, categories,
            report, rgThrown>>

(***************************************************************************)
(* State of the FirstInteractive artifact                                  *)
(***************************************************************************)
VARIABLES
  entry,           \* the function that was called
  pc,              \* where the call stands
  navStart, FMP, DCL, traceEnd,   \* traceOfTab.timestamps / .timings
  topLevelEvents,  \* what getMainThreadTopLevelEvents returns
  longTasks,       \* the tasks argument of findQuietWindow / getTaskClustersInWindow
  i,               \* the loop variable of findQuietWindow (0-based)
  examined,        \* history: the candidates i whose window was looked at
  clusterArgs,     \* the (startIndex, windowEnd) of the last getTaskClustersInWindow
  taskClusters,    \* its return value
  windows,         \* history: candidate i |-> [windowStart, windowEnd, bad]
  firstInteractive,\* what findQuietWindow returned
  thrown,          \* the message of the Error thrown, "" if none
  result           \* what computeWithArtifacts returned, <<>> if nothing

fiVars == <<entry, pc, navStart, FMP, DCL, traceEnd, topLevelEvents, longTasks,
            i, examined, clusterArgs, taskClusters, windows, firstInteractive,
            thrown, result>>

(***************************************************************************)
(* State of the artifact cache (spec.md 4.3)                               *)
(***************************************************************************)
VARIABLES
  cache,         \* cache key |-> the computation of its entry (an index of
                 \* computations); a key without entry is not in the domain
  computations,  \* the computations started so far, in order:
                 \* [name, trace, outcome], outcome <<>> while in flight
  requests       \* the requests issued so far, in order:
                 \* [name, trace, key, how, outcome], outcome <<>> while waiting

cacheVars == <<cache, computations, requests>>

(***************************************************************************)
(* State of FirstInteractive.compute_                                      *)
(***************************************************************************)
VARIABLES
  upstream,     \* the promises of requestTracingModel and requestTraceOfTab
  settleOrder,  \* the upstream promises that are settled, in the order they settled
  all,          \* the promise Promise.all returned
  promise       \* the promise compute_ returned

promiseVars == <<upstream, settleOrder, all, promise>>

(***************************************************************************)
(* State of ReportGeneratorV2.replaceStrings and generateReportHtml        *)
(***************************************************************************)
VARIABLES
  rsPc,            \* where the call stands
  rsSource,        \* source / REPORT_TEMPLATE
  rsReplacements,  \* replacements
  rsJson,          \* JSON.stringify(reportAsJson) of generateReportHtml
  rsResult         \* the returned string: <<string>>, <<>> before the return

stringVars == <<rsPc, rsSource, rsReplacements, rsJson, rsResult>>

auxVars == <<cacheVars, promiseVars, stringVars>>

vars == <<fiVars, rgVars, auxVars>>

NoArgs == [startIndex |-> -1, windowEnd |-> -1]

InitCommon ==
  /\ navStart \in NavStarts
  /\ FMP \in FMPs
  /\ i = 0
  /\ examined = {}
  /\ taskClusters = <<>>
  /\ windows = <<>>
  /\ firstInteractive = -1
  /\ thrown = ""
  /\ result = <<>>

\* computeWithArtifacts(trace, traceModel, traceOfTab)
InitCompute ==
  /\ entry = "computeWithArtifacts"
  /\ pc = "checkTraceLength"
  /\ DCL \in DCLs
  /\ traceEnd \in TraceEnds
  /\ topLevelEvents \in TaskLists
  /\ longTasks = <<>>
  /\ clusterArgs = NoArgs
  /\ InitCommon

\* findQuietWindow(FMP, traceEnd, longTasks), called on its own
InitFind ==
  /\ entry = "findQuietWindow"
  /\ pc = "findQuietWindow"
  /\ DCL = 0
  /\ traceEnd \in TraceEnds
  /\ topLevelEvents = <<>>
  /\ longTasks \in TaskLists
  /\ clusterArgs = NoArgs
  /\ InitCommon

\* getTaskClustersInWindow(tasks, startIndex, windowEnd), called on its own;
\* a startIndex past the end of tasks is what the last candidate passes
InitClusters ==
  /\ entry = "getTaskClustersInWindow"
  /\ pc = "getTaskClustersInWindow"
  /\ DCL = 0
  /\ traceEnd = 0
  /\ topLevelEvents = <<>>
  /\ longTasks \in TaskLists
  /\ clusterArgs \in [startIndex : 0..MaxTasks, windowEnd : WindowEnds]
  /\ InitCommon

\* the report generator is not called
RgIdle ==
  /\ rgPc = "idle"
  /\ items = <<>>
  /\ meanResult = <<>>
  /\ category = <<>>
  /\ audits = <<>>
  /\ mapped = <<>>
  /\ categories = <<>>
  /\ report = <<>>
  /\ rgThrown = ""

\* the cache is empty: no request was issued
CacheIdle ==
  /\ cache = <<>>
  /\ computations = <<>>
  /\ requests = <<>>

\* a promise: pending, fulfilled with a value or rejected with a reason
Pending == [state |-> "pending", value |-> <<>>, reason |-> ""]

Fulfilled(value) == [state |-> "fulfilled", value |-> <<value>>, reason |-> ""]

Rejected(reason) == [state |-> "rejected", value |-> <<>>, reason |-> reason]

\* compute_ is not called
PromiseIdle ==
  /\ upstream = <<>>
  /\ settleOrder = <<>>
  /\ all = Pending
  /\ promise = Pending

\* neither replaceStrings nor generateReportHtml is called
StringsIdle ==
  /\ rsPc = "idle"
  /\ rsSource = <<>>
  /\ rsReplacements = <<>>
  /\ rsJson = <<>>
  /\ rsResult = <<>>

Init ==
  /\ InitCompute \/ InitFind \/ InitClusters
  /\ RgIdle
  /\ CacheIdle
  /\ PromiseIdle
  /\ StringsIdle

(***************************************************************************)
(* computeWithArtifacts                                                    *)
(***************************************************************************)
\* lines 176-178
CheckTraceLength ==
  /\ pc = "checkTraceLength"
  /\ IF isShortTrace(traceEnd, FMP)
     THEN /\ thrown' = SHORT_TRACE_MSG
          /\ pc' = "thrown"
     ELSE /\ thrown' = thrown
          /\ pc' = "extractLongTasks"
  /\ UNCHANGED <<auxVars, rgVars, entry, navStart, FMP, DCL, traceEnd, topLevelEvents, longTasks,
                 i, examined, clusterArgs, taskClusters, windows,
                 firstInteractive, result>>

\* lines 180-181
ExtractLongTasks ==
  /\ pc = "extractLongTasks"
  /\ longTasks' = SelectSeq(topLevelEvents, LAMBDA evt : isLongTaskAfterFMP(evt, FMP))
  /\ pc' = "findQuietWindow"
  /\ UNCHANGED <<auxVars, rgVars, entry, navStart, FMP, DCL, traceEnd, topLevelEvents,
                 i, examined, clusterArgs, taskClusters, windows,
                 firstInteractive, thrown, result>>

(***************************************************************************)
(* findQuietWindow                                                         *)
(***************************************************************************)
\* a faulty variant of startIndexAfter: the clusters start at the candidate
startIndexAfter_Candidate(candidate) == candidate

\* line 150: the clusters of candidate i are built from the task after it on
startIndexAfter(candidate) == candidate + 1

\* lines 131-134
QuietFromFMP ==
  /\ pc = "findQuietWindow"
  /\ IF isQuietFromFMP(longTasks, FMP)
     THEN /\ firstInteractive' = FMP
          /\ pc' = "returned"
     ELSE /\ firstInteractive' = firstInteractive
          /\ pc' = "loop"
  /\ i' = 0
  /\ UNCHANGED <<auxVars, rgVars, entry, navStart, FMP, DCL, traceEnd, topLevelEvents, longTasks,
                 examined, clusterArgs, taskClusters, windows, thrown, result>>

\* one evaluation of the for loop's condition and, when it holds, one
\* iteration of its body (lines 138-159); when it fails, line 161
FindQuietWindowLoop ==
  /\ pc = "loop"
  /\ IF i < Len(longTasks)
     THEN LET event == longTasks[i + 1]
              windowStart == event.end
              windowSize == getRequiredWindowSizeInMs(windowStart - FMP)
              windowEnd == windowStart + windowSize
              startIndex == startIndexAfter(i)
              clusters == getTaskClustersInWindow(longTasks, startIndex, windowEnd)
              bad == hasBadTaskClusters(clusters, FMP)
          IN /\ examined' = examined \cup {i}
             /\ IF isTraceTooShortForWindow(windowEnd, traceEnd)
                THEN /\ thrown' = TRACE_BUSY_MSG
                     /\ pc' = "thrown"
                     /\ windows' = Append(windows,
                                          [windowStart |-> windowStart,
                                           windowEnd |-> windowEnd,
                                           checked |-> FALSE, bad |-> FALSE])
                     /\ UNCHANGED <<i, clusterArgs, taskClusters, firstInteractive>>
                ELSE /\ clusterArgs' = [startIndex |-> startIndex,
                                         windowEnd |-> windowEnd]
                     /\ taskClusters' = clusters
                     /\ windows' = Append(windows,
                                          [windowStart |-> windowStart,
                                           windowEnd |-> windowEnd,
                                           checked |-> TRUE, bad |-> bad])
                     /\ thrown' = thrown
                     /\ IF ~bad
                        THEN /\ firstInteractive' = windowStart
                             /\ pc' = "returned"
                             /\ i' = i
                        ELSE /\ firstInteractive' = firstInteractive
                             /\ pc' = "loop"
                             /\ i' = i + 1
     ELSE /\ thrown' = TRACE_BUSY_MSG
          /\ pc' = "thrown"
          /\ UNCHANGED <<i, examined, clusterArgs, taskClusters, windows,
                         firstInteractive>>
  /\ UNCHANGED <<auxVars, rgVars, entry, navStart, FMP, DCL, traceEnd, topLevelEvents, longTasks,
                 result>>

\* getTaskClustersInWindow(tasks, startIndex, windowEnd), called on its own
CallGetTaskClusters ==
  /\ pc = "getTaskClustersInWindow"
  /\ taskClusters' = getTaskClustersInWindow(longTasks, clusterArgs.startIndex,
                                             clusterArgs.windowEnd)
  /\ pc' = "done"
  /\ UNCHANGED <<auxVars, rgVars, entry, navStart, FMP, DCL, traceEnd, topLevelEvents, longTasks,
                 i, examined, clusterArgs, windows, firstInteractive, thrown,
                 result>>

\* lines 184-188, after findQuietWindow returned into computeWithArtifacts
ReturnResult ==
  /\ pc = "returned"
  /\ entry = "computeWithArtifacts"
  /\ LET value == valueInMs(firstInteractive, DCL)
     IN result' = <<[timeInMs |-> value,
                     timestamp |-> (value + navStart) * 1000]>>
  /\ pc' = "done"
  /\ UNCHANGED <<auxVars, rgVars, entry, navStart, FMP, DCL, traceEnd, topLevelEvents, longTasks,
                 i, examined, clusterArgs, taskClusters, windows,
                 firstInteractive, thrown>>

Next ==
  \/ CheckTraceLength
  \/ ExtractLongTasks
  \/ QuietFromFMP
  \/ FindQuietWindowLoop
  \/ CallGetTaskClusters
  \/ ReturnResult

Spec == Init /\ [][Next]_vars

(***************************************************************************)
(* compute_                                                                *)
(*                                                                         *)
(* The two requests are issued when compute_ is called (lines 198-199);    *)
(* each settles on its own, in any order.  The tracing model is kept as    *)
(* the top-level events getMainThreadTopLevelEvents reads from it.         *)
(***************************************************************************)
MODEL_ERROR_MSG == "tracing model failed"

TAB_ERROR_MSG == "trace of tab failed"

\* what requestTraceOfTab can be fulfilled with
TraceOfTabs ==
  [navigationStart : NavStarts, firstMeaningfulPaint : FMPs,
   domContentLoaded : DCLs, traceEnd : TraceEnds]

\* a faulty variant of promiseAll: fulfilled as soon as one of the promises
\* is, the other value being an empty model or a trace of tab of zeros
promiseAll_Any(ups, order) ==
  IF \E n \in DOMAIN ups : ups[n].state = "fulfilled"
  THEN Fulfilled(<<IF ups.tracingModel.state = "fulfilled"
                   THEN ups.tracingModel.value[1] ELSE <<>>,
                   IF ups.traceOfTab.state = "fulfilled"
                   THEN ups.traceOfTab.value[1]
                   ELSE [navigationStart |-> 0, firstMeaningfulPaint |-> 0,
                         domContentLoaded |-> 0, traceEnd |-> 0]>>)
  ELSE Pending

\* Promise.all([tracingModel, traceOfTab]), line 197: rejected with the
\* reason of the promise that was rejected first, fulfilled with both
\* values once both are fulfilled
promiseAll(ups, order) ==
  LET rejected == SelectSeq(order, LAMBDA n : ups[n].state = "rejected")
  IN IF rejected # <<>>
     THEN Rejected(ups[rejected[1]].reason)
     ELSE IF \A n \in DOMAIN ups : ups[n].state = "fulfilled"
          THEN Fulfilled(<<ups.tracingModel.value[1], ups.traceOfTab.value[1]>>)
          ELSE Pending

\* compute_(trace, artifacts) was called: lines 197-199
InitCompute_ ==
  /\ entry = "compute_"
  /\ pc = "pending"
  /\ navStart = 0
  /\ FMP = 0
  /\ DCL = 0
  /\ traceEnd = 0
  /\ topLevelEvents = <<>>
  /\ longTasks = <<>>
  /\ clusterArgs = NoArgs
  /\ i = 0
  /\ examined = {}
  /\ taskClusters = <<>>
  /\ windows = <<>>
  /\ firstInteractive = -1
  /\ thrown = ""
  /\ result = <<>>
  /\ upstream = [tracingModel |-> Pending, traceOfTab |-> Pending]
  /\ settleOrder = <<>>
  /\ all = Pending
  /\ promise = Pending
  /\ RgIdle
  /\ CacheIdle
  /\ StringsIdle

\* artifacts.requestTracingModel(trace) settles
SettleTracingModel ==
  /\ upstream # <<>>
  /\ upstream.tracingModel.state = "pending"
  /\ \/ \E events \in TaskLists :
          upstream' = [upstream EXCEPT !.tracingModel = Fulfilled(events)]
     \/ upstream' = [upstream EXCEPT !.tracingModel = Rejected(MODEL_ERROR_MSG)]
  /\ settleOrder' = Append(settleOrder, "tracingModel")
  /\ UNCHANGED <<fiVars, rgVars, cacheVars, stringVars, all, promise>>

\* artifacts.requestTraceOfTab(trace) settles
SettleTraceOfTab ==
  /\ upstream # <<>>
  /\ upstream.traceOfTab.state = "pending"
  /\ \/ \E traceOfTab \in TraceOfTabs :
          upstream' = [upstream EXCEPT !.traceOfTab = Fulfilled(traceOfTab)]
     \/ upstream' = [upstream EXCEPT !.traceOfTab = Rejected(TAB_ERROR_MSG)]
  /\ settleOrder' = Append(settleOrder, "traceOfTab")
  /\ UNCHANGED <<fiVars, rgVars, cacheVars, stringVars, all, promise>>

\* the promise of Promise.all settles
AllSettles ==
  /\ upstream # <<>>
  /\ all.state = "pending"
  /\ promiseAll(upstream, settleOrder).state # "pending"
  /\ all' = promiseAll(upstream, settleOrder)
  /\ UNCHANGED <<fiVars, rgVars, cacheVars, stringVars, upstream, settleOrder,
                 promise>>

\* line 200: then has no rejection handler, the rejection passes through
ThenRejects ==
  /\ all.state = "rejected"
  /\ promise.state = "pending"
  /\ promise' = Rejected(all.reason)
  /\ UNCHANGED <<fiVars, rgVars, cacheVars, stringVars, upstream, settleOrder,
                 all>>

\* lines 200-201 and 171-174: the callback of then calls
\* computeWithArtifacts with the two values
ThenCallback ==
  /\ all.state = "fulfilled"
  /\ entry = "compute_"
  /\ pc = "pending"
  /\ LET traceModel == all.value[1][1]
         traceOfTab == all.value[1][2]
     IN /\ topLevelEvents' = traceModel
        /\ navStart' = traceOfTab.navigationStart
        /\ FMP' = traceOfTab.firstMeaningfulPaint
        /\ DCL' = traceOfTab.domContentLoaded
        /\ traceEnd' = traceOfTab.traceEnd
  /\ entry' = "computeWithArtifacts"
  /\ pc' = "checkTraceLength"
  /\ UNCHANGED <<auxVars, rgVars, longTasks, i, examined, clusterArgs,
                 taskClusters, windows, firstInteractive, thrown, result>>

\* the callback returned or threw: the promise of then settles
ThenSettles ==
  /\ all.state = "fulfilled"
  /\ promise.state = "pending"
  /\ entry = "computeWithArtifacts"
  /\ pc \in {"done", "thrown"}
  /\ promise' = IF pc = "done" THEN Fulfilled(result[1]) ELSE Rejected(thrown)
  /\ UNCHANGED <<fiVars, rgVars, cacheVars, stringVars, upstream, settleOrder,
                 all>>

NextCompute_ ==
  \/ SettleTracingModel
  \/ SettleTraceOfTab
  \/ AllSettles
  \/ ThenRejects
  \/ ThenCallback
  \/ CheckTraceLength
  \/ ExtractLongTasks
  \/ QuietFromFMP
  \/ FindQuietWindowLoop
  \/ ReturnResult
  \/ ThenSettles

SpecCompute_ == InitCompute_ /\ [][NextCompute_]_vars

(***************************************************************************)
(* The report generator                                                    *)
(*                                                                         *)
(* config.categories and resultsByAuditId are read where the maps of       *)
(* generateReportJson reach them: MapAudit draws the next audit's weight   *)
(* and its entry of resultsByAuditId (every audit of the configuration has *)
(* an id of its own); a category's weight is read by nothing before the    *)
(* arithmeticMean of line 119, and ReturnReport draws it.  Of a mapped     *)
(* audit and of a mapped category the state keeps the fields               *)
(* arithmeticMean reads; the result of the audit mapped last is kept in    *)
(* mapped.                                                                 *)
(***************************************************************************)
\* FirstInteractive is not called
FiIdle ==
  /\ entry = "none"
  /\ pc = "idle"
  /\ navStart = 0
  /\ FMP = 0
  /\ DCL = 0
  /\ traceEnd = 0
  /\ topLevelEvents = <<>>
  /\ longTasks = <<>>
  /\ clusterArgs = NoArgs
  /\ i = 0
  /\ examined = {}
  /\ taskClusters = <<>>
  /\ windows = <<>>
  /\ firstInteractive = -1
  /\ thrown = ""
  /\ result = <<>>

ItemLists == UNION {[1..n -> Items] : n \in 0..MaxItems}

\* ReportGeneratorV2.arithmeticMean(items), called on its own
InitMean ==
  /\ rgPc = "arithmeticMean"
  /\ items \in ItemLists
  /\ meanResult = <<>>
  /\ category = <<>>
  /\ audits = <<>>
  /\ mapped = <<>>
  /\ categories = <<>>
  /\ report = <<>>
  /\ rgThrown = ""

\* generateReportJson(config, resultsByAuditId)
InitReportJson ==
  /\ rgPc = "categories"
  /\ items = <<>>
  /\ meanResult = <<>>
  /\ category = <<>>
  /\ audits = <<>>
  /\ mapped = <<>>
  /\ categories = <<>>
  /\ report = <<>>
  /\ rgThrown = ""

InitReport ==
  /\ FiIdle
  /\ InitMean \/ InitReportJson
  /\ CacheIdle
  /\ PromiseIdle
  /\ StringsIdle

\* lines 37-48
CallArithmeticMean ==
  /\ rgPc = "arithmeticMean"
  /\ meanResult' = <<arithmeticMean(items)>>
  /\ rgPc' = "done"
  /\ UNCHANGED <<auxVars, fiVars, items, category, audits, mapped, categories, report,
                 rgThrown>>

\* lines 100-102: the map over Object.keys(config.categories) takes the
\* next category
MapCategory ==
  /\ rgPc = "categories"
  /\ Len(categories) < Len(CategoryIds)
  /\ category' = <<[id |-> CategoryIds[Len(categories) + 1]]>>
  /\ rgPc' = "audits"
  /\ UNCHANGED <<auxVars, fiVars, items, meanResult, audits, mapped, categories, report,
                 rgThrown>>

\* lines 104-113: the map over category.audits takes the next audit;
\* result.score of an undefined result throws a TypeError
MapAudit ==
  /\ rgPc = "audits"
  /\ Len(audits) < MaxAudits
  /\ \E weight \in AuditWeights, auditResult \in AuditResults :
       IF auditResult = <<>>
       THEN /\ rgThrown' = TYPE_ERROR_MSG
            /\ rgPc' = "thrown"
            /\ mapped' = <<[weight |-> weight, result |-> auditResult,
                            score |-> JSUndefined]>>
            /\ audits' = audits
       ELSE LET auditScore == JSNumber(auditScoreOf(auditResult[1].score))
            IN /\ audits' = Append(audits, [weight |-> weight, score |-> auditScore])
               /\ mapped' = <<[weight |-> weight, result |-> auditResult,
                               score |-> auditScore]>>
               /\ rgPc' = rgPc
               /\ rgThrown' = rgThrown
  /\ UNCHANGED <<auxVars, fiVars, items, meanResult, category, categories, report>>

\* lines 115-116: category.audits is mapped, the category gets its score
\* and the callback of the outer map returns
ScoreCategory ==
  /\ rgPc = "audits"
  /\ LET categoryScore == JSNumber(arithmeticMean(audits))
     IN categories' = Append(categories, [id |-> category[1].id,
                                          score |-> categoryScore])
  /\ category' = <<>>
  /\ audits' = <<>>
  /\ mapped' = <<>>
  /\ rgPc' = "categories"
  /\ UNCHANGED <<auxVars, fiVars, items, meanResult, report, rgThrown>>

\* the categories with the weights the configuration gives them
withWeights(cats, weights) ==
  [k \in 1..Len(cats) |->
     [id |-> cats[k].id, weight |-> weights[k], score |-> cats[k].score]]

\* lines 119-122: config.categories is mapped.  Object.assign copied each
\* category's weight from the configuration into the mapped category.
ReturnReport ==
  /\ rgPc = "categories"
  /\ \E weights \in [1..Len(categories) -> CategoryWeights] :
       LET weighted == withWeights(categories, weights)
       IN /\ categories' = weighted
          /\ report' = <<[score |-> arithmeticMean(weighted)]>>
  /\ rgPc' = "done"
  /\ UNCHANGED <<auxVars, fiVars, items, meanResult, category, audits, mapped, rgThrown>>

NextReport ==
  \/ CallArithmeticMean
  \/ MapCategory
  \/ MapAudit
  \/ ScoreCategory
  \/ ReturnReport

SpecReport == InitReport /\ [][NextReport]_vars

(***************************************************************************)
(* The artifact cache (spec.md 4.3)                                        *)
(*                                                                         *)
(* computed-artifact.js is not among the sources; the cache is modelled    *)
(* from its contract: request(artifactName, traceRef) starts a computation *)
(* if the key has no entry, attaches to the computation in flight if it    *)
(* has one, and gets the retained outcome if the computation is settled.   *)
(* A failure is retained like a value.  The outcome of a computation       *)
(* names the artifact and the trace it was computed from.                  *)
(***************************************************************************)
\* the most requests that are issued
MaxRequests == 3

ArtifactNames == {"FirstInteractive", "TraceOfTab"}

\* trace identities
TraceIds == {"trace1", "trace2"}

\* a faulty variant of cacheKeyOf: the trace identity is not part of the key
cacheKeyOf_NameOnly(name, trace) == <<name>>

\* the key of an entry: (artifact name, trace identity)
cacheKeyOf(name, trace) == <<name, trace>>

\* request(artifactName, traceRef)
Request ==
  /\ Len(requests) < MaxRequests
  /\ \E name \in ArtifactNames, trace \in TraceIds :
       LET key == cacheKeyOf(name, trace)
           request == [name |-> name, trace |-> trace, key |-> key,
                       how |-> "started", outcome |-> <<>>]
       IN IF key \notin DOMAIN cache
          THEN /\ computations' = Append(computations,
                                         [name |-> name, trace |-> trace,
                                          outcome |-> <<>>])
               /\ cache' = cache @@ (key :> (Len(computations) + 1))
               /\ requests' = Append(requests, request)
          ELSE LET outcome == computations[cache[key]].outcome
                   how == IF outcome = <<>> THEN "attached" ELSE "retained"
               IN /\ requests' = Append(requests,
                                        [request EXCEPT !.how = how,
                                                        !.outcome = outcome])
                  /\ UNCHANGED <<cache, computations>>
  /\ UNCHANGED <<fiVars, rgVars, promiseVars, stringVars>>

\* a computation in flight completes, with a value or with a failure; every
\* request attached to it gets the outcome
Complete ==
  /\ \E c \in 1..Len(computations), failed \in BOOLEAN :
       LET outcome == [of |-> <<computations[c].name, computations[c].trace>>,
                       failed |-> failed]
       IN /\ computations[c].outcome = <<>>
          /\ computations' = [computations EXCEPT ![c].outcome = <<outcome>>]
          /\ requests' =
               [k \in 1..Len(requests) |->
                  IF cache[requests[k].key] = c
                  THEN [requests[k] EXCEPT !.outcome = <<outcome>>]
                  ELSE requests[k]]
  /\ UNCHANGED <<fiVars, rgVars, promiseVars, stringVars, cache>>

InitCache ==
  /\ FiIdle
  /\ RgIdle
  /\ CacheIdle
  /\ PromiseIdle
  /\ StringsIdle

NextCache ==
  \/ Request
  \/ Complete

SpecCache == InitCache /\ [][NextCache]_vars

(***************************************************************************)
(* ReportGeneratorV2.replaceStrings and generateReportHtml                 *)
(*                                                                         *)
(* A string is the sequence of its characters.                             *)
(***************************************************************************)
\* sep occurs in source at the (1-based) position p
occursAt(source, sep, p) ==
  /\ p + Len(sep) - 1 <= Len(source)
  /\ SubSeq(source, p, p + Len(sep) - 1) = sep

\* the positions from p on at which sep occurs in source
occurrencesFrom(source, sep, p) ==
  {q \in p..Len(source) : occursAt(source, sep, q)}

\* String.prototype.split for a separator that is not empty: the parts of
\* source from position p on, cut at the leftmost occurrence of sep and
\* then after it
RECURSIVE splitFrom(_, _, _)
splitFrom(source, sep, p) ==
  LET found == occurrencesFrom(source, sep, p)
  IN IF found = {}
     THEN <<SubSeq(source, p, Len(source))>>
     ELSE LET q == CHOOSE q \in found : \A r \in found : q <= r
          IN <<SubSeq(source, p, q - 1)>> \o splitFrom(source, sep, q + Len(sep))

\* source.split(sep): the empty separator splits between the characters,
\* and an empty source then has no parts
split(source, sep) ==
  IF sep = <<>>
  THEN [k \in 1..Len(source) |-> <<source[k]>>]
  ELSE splitFrom(source, sep, 1)

\* parts.join(sep), from the part of index k on
RECURSIVE joinFrom(_, _, _)
joinFrom(parts, sep, k) ==
  IF k > Len(parts) THEN <<>>
  ELSE IF k = Len(parts) THEN parts[k]
       ELSE parts[k] \o sep \o joinFrom(parts, sep, k + 1)

join(parts, sep) == joinFrom(parts, sep, 1)

\* a faulty variant of replaceStrings: serial replacement, the next
\* replacements are applied to the text with the first one made
RECURSIVE replaceStrings_Serial(_, _)
replaceStrings_Serial(source, replacements) ==
  IF Len(replacements) = 0 THEN source
  ELSE replaceStrings_Serial(join(split(source, replacements[1].search),
                                  replacements[1].replacement),
                             Tail(replacements))

\* lines 55-66
RECURSIVE replaceStrings(_, _)
replaceStrings(source, replacements) ==
  IF Len(replacements) = 0 THEN source
  ELSE LET firstReplacement == replacements[1]
           nextReplacements == Tail(replacements)
           parts == split(source, firstReplacement.search)
           replaced == [k \in 1..Len(parts) |->
                          replaceStrings(parts[k], nextReplacements)]
       IN join(replaced, firstReplacement.replacement)

\* text.replace(regexp, by) for a global regexp that matches exactly the
\* text pattern
replaceGlobal(text, pattern, by) == join(split(text, pattern), by)

\* lines 135-138: the placeholders of the template
LIGHTHOUSE_JSON ==
  <<"%", "%", "L", "I", "G", "H", "T", "H", "O", "U", "S", "E", "_", "J",
    "S", "O", "N", "%", "%">>

LIGHTHOUSE_JAVASCRIPT ==
  <<"%", "%", "L", "I", "G", "H", "T", "H", "O", "U", "S", "E", "_", "J",
    "A", "V", "A", "S", "C", "R", "I", "P", "T", "%", "%">>

LIGHTHOUSE_CSS ==
  <<"/", "*", "%", "%", "L", "I", "G", "H", "T", "H", "O", "U", "S", "E",
    "_", "C", "S", "S", "%", "%", "*", "/">>

LIGHTHOUSE_TEMPLATES ==
  <<"%", "%", "L", "I", "G", "H", "T", "H", "O", "U", "S", "E", "_", "T",
    "E", "M", "P", "L", "A", "T", "E", "S", "%", "%">>

\* line 131, after JSON.stringify
sanitizeJson(json) == replaceGlobal(json, <<"<">>, <<"\\", "u", "0", "0", "3", "c">>)

\* line 132
sanitizeJavascript(javascript) ==
  replaceGlobal(javascript, <<"<", "/">>, <<"\\", "u", "0", "0", "3", "c", "/">>)

\* lines 134-139: the replacements generateReportHtml asks for
htmlReplacements(json, javascript, css, templates) ==
  <<[search |-> LIGHTHOUSE_JSON, replacement |-> sanitizeJson(json)],
    [search |-> LIGHTHOUSE_JAVASCRIPT, replacement |-> sanitizeJavascript(javascript)],
    [search |-> LIGHTHOUSE_CSS, replacement |-> css],
    [search |-> LIGHTHOUSE_TEMPLATES, replacement |-> templates]>>

\* the longest source given to replaceStrings directly
MaxLen == 3

\* the longest list of replacements given to replaceStrings directly
MaxReplacements == 2

Chars == {"a", "b"}

Sources == UNION {[1..n -> Chars] : n \in 0..MaxLen}

SearchStrings == {<<>>, <<"a">>, <<"b">>, <<"a", "b">>, <<"a", "a">>}

ReplacementValues == {<<>>, <<"a">>, <<"b", "a">>}

ReplacementLists ==
  UNION {[1..n -> [search : SearchStrings, replacement : ReplacementValues]] :
           n \in 0..MaxReplacements}

\* JSON.stringify(reportAsJson): an empty object, a string that holds the
\* placeholder of the renderer javascript, one that holds the placeholder
\* of the templates, one that holds a <
JsonTexts ==
  {<<"{", "}">>,
   <<"\"">> \o LIGHTHOUSE_JAVASCRIPT \o <<"\"">>,
   <<"\"">> \o LIGHTHOUSE_TEMPLATES \o <<"\"">>,
   <<"\"", "<", "\"">>}

\* report-template.html (line 21): with every placeholder, with the
\* placeholder of the JSON twice, and without it
ReportTemplates ==
  {<<"<">> \o LIGHTHOUSE_JSON \o <<">">> \o LIGHTHOUSE_JAVASCRIPT
     \o LIGHTHOUSE_CSS \o LIGHTHOUSE_TEMPLATES,
   LIGHTHOUSE_JSON \o LIGHTHOUSE_JSON,
   LIGHTHOUSE_JAVASCRIPT \o LIGHTHOUSE_TEMPLATES}

\* the renderer's javascript (lines 22-27): plain, with a closing tag, and
\* holding the placeholder of the JSON
ReportJavascripts ==
  {<<"j", "s">>, <<"<", "/", "s", ">">>, LIGHTHOUSE_JSON}

\* report-styles.css (line 28)
ReportCss == {<<"c">>}

\* templates.html (line 29): plain, and holding the placeholder of the css
ReportTemplatesHtml == {<<"t">>, LIGHTHOUSE_CSS}

\* ReportGeneratorV2.replaceStrings(source, replacements), called on its own
InitReplaceStrings ==
  /\ rsPc = "replaceStrings"
  /\ rsSource \in Sources
  /\ rsReplacements \in ReplacementLists
  /\ rsJson = <<>>
  /\ rsResult = <<>>

\* generateReportHtml(reportAsJson)
InitReportHtml ==
  /\ rsPc = "generateReportHtml"
  /\ rsSource = <<>>
  /\ rsReplacements = <<>>
  /\ rsJson \in JsonTexts
  /\ rsResult = <<>>

InitStrings ==
  /\ FiIdle
  /\ RgIdle
  /\ CacheIdle
  /\ PromiseIdle
  /\ InitReplaceStrings \/ InitReportHtml

CallReplaceStrings ==
  /\ rsPc = "replaceStrings"
  /\ rsResult' = <<replaceStrings(rsSource, rsReplacements)>>
  /\ rsPc' = "done"
  /\ UNCHANGED <<fiVars, rgVars, cacheVars, promiseVars, rsSource,
                 rsReplacements, rsJson>>

\* lines 130-140; the files read at lines 21-29 are what the installation
\* holds
GenerateReportHtml ==
  /\ rsPc = "generateReportHtml"
  /\ \E template \in ReportTemplates, javascript \in ReportJavascripts,
        css \in ReportCss, templates \in ReportTemplatesHtml :
       LET replacements == htmlReplacements(rsJson, javascript, css, templates)
       IN /\ rsSource' = template
          /\ rsReplacements' = replacements
          /\ rsResult' = <<replaceStrings(template, replacements)>>
  /\ rsPc' = "htmlDone"
  /\ UNCHANGED <<fiVars, rgVars, cacheVars, promiseVars, rsJson>>

NextStrings ==
  \/ CallReplaceStrings
  \/ GenerateReportHtml

SpecStrings == InitStrings /\ [][NextStrings]_vars

(***************************************************************************)
(* Properties of the FirstInteractive artifact                             *)
(***************************************************************************)
\* findQuietWindow was entered and its first statement has run
FindStarted ==
  /\ entry # "getTaskClustersInWindow"
  /\ pc \in {"loop", "returned", "done", "thrown"}
  /\ thrown # SHORT_TRACE_MSG

\* findQuietWindow returned a value
FindReturned ==
  entry # "getTaskClustersInWindow" /\ pc \in {"returned", "done"}

\* C1: findQuietWindow returns exactly FMP, and throws nothing, whenever
\* longTasks is empty or its first task starts more than 5000 ms after FMP,
\* whatever traceEnd is and whatever tasks follow.
C1_QuietFromFMPReturnsFMP ==
  (FindStarted /\ (longTasks = <<>> \/ longTasks[1].start > FMP + 5000))
    => /\ FindReturned
       /\ firstInteractive = FMP
       /\ thrown = ""
       /\ examined = {}

\* the first task starts after FMP + 5000, a later task alone is longer than
\* 250 ms, and the trace is too short for any window after a task
C1_Witness ==
  /\ entry = "findQuietWindow"
  /\ pc = "returned"
  /\ Len(longTasks) >= 2
  /\ longTasks[1].start > FMP + 5000
  /\ longTasks[2].end - longTasks[2].start > 250
  /\ traceEnd = 6000
  /\ firstInteractive = FMP

\* the clusters of the last candidate whose window was checked are in
\* taskClusters; that candidate has JS index clusterArgs.startIndex - 1
CandidateChecked == entry # "getTaskClustersInWindow" /\ clusterArgs # NoArgs

LastCandidateAccepted ==
  /\ FindReturned
  /\ firstInteractive = longTasks[clusterArgs.startIndex].end

ClaimedBad(cluster) == cluster.start < FMP + 5000 \/ cluster.duration > 250

\* C2: a candidate window is accepted iff none of its clusters is bad, a
\* cluster being bad exactly when it starts before FMP + 5000 (whatever its
\* duration) or lasts more than 250 ms.
C2_AcceptedIffNoBadCluster ==
  CandidateChecked =>
    (LastCandidateAccepted
       <=> \A k \in 1..Len(taskClusters) : ~ClaimedBad(taskClusters[k]))

\* accepted although a cluster at FMP + 5000 or later lasts exactly 250 ms
C2_Witness ==
  /\ CandidateChecked
  /\ LastCandidateAccepted
  /\ \E k \in 1..Len(taskClusters) :
       /\ taskClusters[k].duration = 250
       /\ taskClusters[k].start >= FMP + 5000

\* the end of the window that follows the long task of JS index k
WindowEndOf(k) ==
  longTasks[k + 1].end + getRequiredWindowSizeInMs(longTasks[k + 1].end - FMP)

\* C3: once a candidate, examined in list order, has a window that ends
\* after traceEnd, the search has failed with the trace-busy error: no later
\* candidate is examined and no value is returned.
C3_WindowPastTraceEndIsTerminal ==
  \A k \in examined :
    WindowEndOf(k) > traceEnd =>
      /\ pc = "thrown"
      /\ thrown = TRACE_BUSY_MSG
      /\ examined = 0..k
      /\ firstInteractive = -1
      /\ result = <<>>

\* the first candidate's window ends after traceEnd while the last candidate
\* has no task after it, so that its window would hold no cluster at all
C3_Witness ==
  /\ pc = "thrown"
  /\ thrown = TRACE_BUSY_MSG
  /\ examined = {0}
  /\ Len(longTasks) >= 2
  /\ WindowEndOf(0) > traceEnd
  /\ getTaskClustersInWindow(longTasks, Len(longTasks),
                             WindowEndOf(Len(longTasks) - 1)) = <<>>

\* C4: computeWithArtifacts fails with the short-trace error whenever
\* traceEnd - FMP < 5000, before any task is extracted or examined, so that
\* neither a metric nor the trace-busy error comes out; with
\* traceEnd - FMP >= 5000 the short-trace error is never raised.
C4_ShortTraceRejectedFirst ==
  entry = "computeWithArtifacts" =>
    /\ traceEnd - FMP < 5000 =>
         /\ pc \in {"checkTraceLength", "thrown"}
         /\ pc = "thrown" => thrown = SHORT_TRACE_MSG
         /\ longTasks = <<>>
         /\ examined = {}
         /\ firstInteractive = -1
         /\ result = <<>>
    /\ traceEnd - FMP >= 5000 => thrown # SHORT_TRACE_MSG

\* the short-trace error, 1 ms under the floor, with long tasks in the trace
C4_Witness ==
  /\ entry = "computeWithArtifacts"
  /\ pc = "thrown"
  /\ thrown = SHORT_TRACE_MSG
  /\ traceEnd - FMP = 4999
  /\ \E k \in 1..Len(topLevelEvents) : isLongTaskAfterFMP(topLevelEvents[k], FMP)

\* C5: a result's timeInMs is max(candidate, DCL), the candidate being what
\* findQuietWindow returned: never before DOM-content-loaded, never before
\* the candidate.
C5_TimeIsMaxOfCandidateAndDCL ==
  result # <<>> =>
    /\ result[1].timeInMs >= firstInteractive
    /\ result[1].timeInMs >= DCL
    /\ result[1].timeInMs \in {firstInteractive, DCL}

\* a result that was lifted to DCL, after a candidate that is a task's end
C5_Witness ==
  /\ result # <<>>
  /\ examined # {}
  /\ firstInteractive < DCL
  /\ result[1].timeInMs = DCL

\* the JS indices getTaskClustersInWindow walks: from startIndex, as long as
\* the task exists and starts before windowEnd + 1000
Walked(tasks, startIndex, windowEnd) ==
  {k \in startIndex..(Len(tasks) - 1) :
     \A j \in startIndex..k : tasks[j + 1].start < windowEnd + 1000}

\* the idle time between the walked task of JS index k and the next one
GapAfter(tasks, k) == tasks[k + 2].start - tasks[k + 1].end

\* <<a, b>>: a maximal run of walked tasks with gaps of at most 1000 ms
ClaimedRuns(tasks, startIndex, windowEnd) ==
  LET walked == Walked(tasks, startIndex, windowEnd)
  IN {r \in walked \X walked :
        /\ r[1] <= r[2]
        /\ \A k \in r[1]..(r[2] - 1) : GapAfter(tasks, k) <= 1000
        /\ (r[1] - 1) \in walked => GapAfter(tasks, r[1] - 1) > 1000
        /\ (r[2] + 1) \in walked => GapAfter(tasks, r[2]) > 1000}

\* C6: for tasks sorted by start, getTaskClustersInWindow walks the tasks
\* from startIndex while task.start < windowEnd + 1000, puts two consecutive
\* tasks in one cluster iff next.start - previous.end <= 1000, gives each
\* cluster its first task's start, its last task's end and their difference
\* as duration, and returns, in order, exactly the clusters that start
\* before windowEnd.
C6_ClustersAreMaximalRuns ==
  (clusterArgs # NoArgs /\ pc # "getTaskClustersInWindow") =>
    LET tasks == longTasks
        windowEnd == clusterArgs.windowEnd
        runs == ClaimedRuns(tasks, clusterArgs.startIndex, windowEnd)
        kept == {r \in runs : tasks[r[1] + 1].start < windowEnd}
    IN /\ Len(taskClusters) = Cardinality(kept)
       /\ \A n \in 1..Len(taskClusters) :
            \E r \in kept :
              /\ Cardinality({q \in kept : q[1] < r[1]}) = n - 1
              /\ taskClusters[n].tasks = SubSeq(tasks, r[1] + 1, r[2] + 1)
              /\ taskClusters[n].start = tasks[r[1] + 1].start
              /\ taskClusters[n].end = tasks[r[2] + 1].end
              /\ taskClusters[n].duration
                   = tasks[r[2] + 1].end - tasks[r[1] + 1].start

\* two tasks exactly 1000 ms apart returned as one cluster, and a third
\* task that was walked but whose cluster starts at or after windowEnd
C6_Witness ==
  /\ entry = "getTaskClustersInWindow"
  /\ pc = "done"
  /\ clusterArgs.startIndex = 0
  /\ Len(longTasks) = 3
  /\ longTasks[2].start - longTasks[1].end = 1000
  /\ longTasks[3].start >= clusterArgs.windowEnd
  /\ longTasks[3].start < clusterArgs.windowEnd + 1000
  /\ Len(taskClusters) = 1
  /\ Len(taskClusters[1].tasks) = 2

\* the clusters the claims give the window after the long task of JS
\* index k: the maximal runs of the tasks after it that start before the
\* window's end
ClaimedWindowRuns(k) ==
  {r \in ClaimedRuns(longTasks, k + 1, WindowEndOf(k)) :
     longTasks[r[1] + 1].start < WindowEndOf(k)}

\* one of them starts before FMP + 5000 or lasts more than 250 ms
ClaimedWindowIsBad(k) ==
  \E r \in ClaimedWindowRuns(k) :
    \/ longTasks[r[1] + 1].start < FMP + 5000
    \/ longTasks[r[2] + 1].end - longTasks[r[1] + 1].start > 250

\* the JS index of the last candidate whose clusters were built; windows
\* has one entry for each candidate examined, in list order
LastChecked ==
  CHOOSE k \in 0..(Len(windows) - 1) :
    /\ windows[k + 1].checked
    /\ \A j \in (k + 1)..(Len(windows) - 1) : ~windows[j + 1].checked

\* the tasks of the clusters in taskClusters, in order
RECURSIVE TasksOfClusters(_)
TasksOfClusters(k) ==
  IF k > Len(taskClusters) THEN <<>>
  ELSE taskClusters[k].tasks \o TasksOfClusters(k + 1)

\* C13: when findQuietWindow does not take the shortcut and returns a value,
\* the value is the end of the first long task in list order whose window
\* holds no bad cluster: the windows of all earlier long tasks held a bad
\* cluster; and the clusters examined for candidate i consist of tasks of
\* indices greater than i only.
C13_FirstCandidateWithQuietWindow ==
  /\ (FindReturned /\ longTasks # <<>> /\ longTasks[1].start <= FMP + 5000) =>
       \E k \in 0..(Len(longTasks) - 1) :
         /\ firstInteractive = longTasks[k + 1].end
         /\ examined = 0..k
         /\ ~ClaimedWindowIsBad(k)
         /\ \A j \in 0..(k - 1) : ClaimedWindowIsBad(j)
  /\ CandidateChecked =>
       \E n \in 0..(Len(longTasks) - LastChecked - 1) :
         TasksOfClusters(1) = SubSeq(longTasks, LastChecked + 2, LastChecked + 1 + n)

\* the second long task is returned: the window of the first held a bad
\* cluster, its own window holds a cluster that is not bad
C13_Witness ==
  /\ entry = "findQuietWindow"
  /\ pc = "returned"
  /\ examined = {0, 1}
  /\ Len(longTasks) = 3
  /\ firstInteractive = longTasks[2].end
  /\ taskClusters # <<>>

\* what findQuietWindow of first-interactive.js came to
FindOutcome ==
  IF pc = "thrown" THEN Throws(thrown) ELSE Returns(firstInteractive)

\* C14: the "cluster" variant and the "group" variant are equivalent: for
\* the same FMP, traceEnd and long tasks both findQuietWindow return the
\* same value or both throw the trace-busy error, and for the same
\* arguments getTaskClustersInWindow and getTaskGroupsInWindow return the
\* same clusters.
C14_VariantsAgree ==
  /\ (FindStarted /\ pc # "loop") =>
       findQuietWindowGroups(FMP, traceEnd, longTasks) = FindOutcome
  /\ (clusterArgs # NoArgs /\ pc # "getTaskClustersInWindow") =>
       taskClusters = getTaskGroupsInWindow(longTasks, clusterArgs.startIndex,
                                            clusterArgs.windowEnd)

\* both return the end of the second long task, whose window holds a
\* cluster that starts exactly 5000 ms after FMP
C14_Witness ==
  /\ entry = "findQuietWindow"
  /\ pc = "returned"
  /\ examined = {0, 1}
  /\ findQuietWindowGroups(FMP, traceEnd, longTasks) = Returns(longTasks[2].end)
  /\ \E k \in 1..Len(taskClusters) : taskClusters[k].start = FMP + 5000

\* C16: whenever computeWithArtifacts returns a result, the quiet window
\* behind it lies inside the trace: the candidate c of findQuietWindow is
\* at or after FMP and c + windowSize(c - FMP) is at or before traceEnd,
\* for a candidate that is the end of a long task as for FMP itself, where
\* only the check of traceEnd - FMP >= 5000 at the top sees to it.
C16_QuietWindowInsideTrace ==
  result # <<>> =>
    /\ firstInteractive >= FMP
    /\ firstInteractive + getRequiredWindowSizeInMs(firstInteractive - FMP)
         <= traceEnd
    /\ examined = {} => (firstInteractive = FMP /\ FMP + 5000 <= traceEnd)
    /\ examined # {} =>
         \E k \in examined : firstInteractive = longTasks[k + 1].end

\* a result from the shortcut, for a trace that ends exactly 5000 ms after
\* FMP and has long tasks after that
C16_Witness ==
  /\ result # <<>>
  /\ examined = {}
  /\ longTasks # <<>>
  /\ firstInteractive = FMP
  /\ traceEnd = FMP + 5000

(***************************************************************************)
(* Properties of compute_                                                  *)
(***************************************************************************)
BothFulfilled == \A n \in DOMAIN upstream : upstream[n].state = "fulfilled"

\* the reasons the upstream requests were rejected with
UpstreamReasons ==
  {upstream[n].reason : n \in {m \in DOMAIN upstream : upstream[m].state = "rejected"}}

\* C12: computeWithArtifacts runs only after both upstream requests were
\* fulfilled, in whatever order, and with the values they were fulfilled
\* with; if an upstream request fails, computeWithArtifacts never runs and
\* the request can only fail, with an upstream error; if
\* computeWithArtifacts throws, the request can only fail, with the error
\* thrown; a failed request delivers no result, and a request is fulfilled
\* only with the complete result of a computeWithArtifacts that returned.
C12_ComputeAfterBothOrFail ==
  /\ pc # "pending" =>
       /\ BothFulfilled
       /\ topLevelEvents = upstream.tracingModel.value[1]
       /\ FMP = upstream.traceOfTab.value[1].firstMeaningfulPaint
       /\ traceEnd = upstream.traceOfTab.value[1].traceEnd
       /\ DCL = upstream.traceOfTab.value[1].domContentLoaded
       /\ navStart = upstream.traceOfTab.value[1].navigationStart
  /\ UpstreamReasons # {} =>
       /\ pc = "pending"
       /\ result = <<>>
       /\ promise.state # "fulfilled"
       /\ promise.state = "rejected" => promise.reason \in UpstreamReasons
  /\ thrown # "" =>
       /\ result = <<>>
       /\ promise.state # "fulfilled"
       /\ promise.state = "rejected" => promise.reason = thrown
  /\ promise.state = "rejected" =>
       /\ promise.value = <<>>
       /\ result = <<>>
       /\ UpstreamReasons # {} \/ thrown # ""
  /\ promise.state = "fulfilled" =>
       /\ pc = "done"
       /\ promise.value = result
       /\ DOMAIN result[1] = {"timeInMs", "timestamp"}

\* the trace of tab came first and the tracing model second, and the
\* request failed with the trace-busy error computeWithArtifacts threw
C12_Witness ==
  /\ settleOrder = <<"traceOfTab", "tracingModel">>
  /\ BothFulfilled
  /\ thrown = TRACE_BUSY_MSG
  /\ promise = Rejected(TRACE_BUSY_MSG)

(***************************************************************************)
(* Properties of the report generator                                      *)
(***************************************************************************)
\* C7: the score aggregator never raises: for every configuration and every
\* mapping of audit id to result, also one without an entry for an audit id
\* the configuration references, generateReportJson throws nothing and the
\* report it returns has a number as score.
C7_NeverRaises ==
  /\ rgThrown = ""
  /\ report # <<>> => report[1].score.kind \in {"fin", "inf", "nan"}

\* what the claims let a score or weight count as: a number that is not
\* NaN as itself, anything else as 0 (the numbers of the inputs are integers)
CountsAs(v) ==
  IF v.type = "number" /\ v.num.kind = "fin" THEN v.num.n ELSE 0

\* the sum of weight_k, and of score_k * weight_k, over the items from k on
RECURSIVE TotalWeight(_, _)
TotalWeight(list, k) ==
  IF k > Len(list) THEN 0
  ELSE CountsAs(list[k].weight) + TotalWeight(list, k + 1)

RECURSIVE WeightedSum(_, _)
WeightedSum(list, k) ==
  IF k > Len(list) THEN 0
  ELSE CountsAs(list[k].score) * CountsAs(list[k].weight)
         + WeightedSum(list, k + 1)

\* x is the weighted mean of list, and 0 if the total weight is 0
IsWeightedMeanOrZero(x, list) ==
  LET W == TotalWeight(list, 1)
      S == WeightedSum(list, 1)
  IN IF W = 0
     THEN x = Num(0)
     ELSE x.kind = "fin" /\ x.n * W = S * x.d

\* x is the weighted mean of list where the total weight is not 0, and 0
\* where no item has a weight
IsWeightedMean(x, list) ==
  LET W == TotalWeight(list, 1)
      S == WeightedSum(list, 1)
  IN /\ W # 0 => (x.kind = "fin" /\ x.n * W = S * x.d)
     /\ (\A k \in 1..Len(list) : CountsAs(list[k].weight) = 0) => x = Num(0)

\* C8: arithmeticMean(items) is (sum of score_i * weight_i) / (sum of
\* weight_i) if the total weight is not 0, and 0 if it is 0; a missing or
\* non-numeric score or weight counts as 0.
C8_MeanIsWeightedMeanOrZero ==
  meanResult # <<>> => IsWeightedMeanOrZero(meanResult[1], items)

\* what the claims say the score of an audit is normalized to
ClaimedAuditScore(raw) ==
  CASE raw.type = "boolean" -> IF raw.bool THEN Num(100) ELSE Num(0)
    [] raw.type = "number" /\ raw.num.kind # "nan" -> raw.num
    [] OTHER -> Num(0)

\* the audit mapped last got the normalized score of its result, and its
\* configured weight
LastAuditNormalized ==
  (mapped # <<>> /\ mapped[1].result # <<>>) =>
    /\ mapped[1].score = JSNumber(ClaimedAuditScore(mapped[1].result[1].score))
    /\ audits # <<>>
    /\ audits[Len(audits)].score = mapped[1].score
    /\ audits[Len(audits)].weight = mapped[1].weight

\* the step that gives a category its score
CategoryScored == rgPc = "audits" /\ rgPc' = "categories"

\* the step that returns the report
ReportReturned == rgPc = "categories" /\ rgPc' = "done"

\* C9: every audit's score is its result's score normalized (true 100,
\* false 0, null, missing and other non-numeric values 0, a number as it
\* is), and a category's score is the weighted mean of these scores with
\* the configured audit weights (0 for a category none of whose audits has
\* a weight).
C9_NormalizedThenWeightedMean ==
  [][/\ LastAuditNormalized'
     /\ CategoryScored =>
          IsWeightedMean(categories'[Len(categories')].score.num, audits)
    ]_vars

\* a first category scored 75 from audits of different weights, and an audit
\* of the second whose result true became 100
C9_Witness ==
  /\ Len(categories) = 1
  /\ categories[1].score = JSNumber(Num(75))
  /\ mapped # <<>>
  /\ mapped[1].result = <<[score |-> JSBoolean(TRUE)]>>
  /\ mapped[1].score = JSNumber(Num(100))

Within0To100(x) == x.kind = "fin" /\ 0 <= x.n /\ x.n <= 100 * x.d

IsOutOfRangeNumber(raw) ==
  raw.type = "number" /\ raw.num.kind # "nan" /\ ~Within0To100(raw.num)

NonNegativeWeights(list) ==
  \A k \in 1..Len(list) : CountsAs(list[k].weight) >= 0

OnlyNumbersLeaveRange ==
  (mapped # <<>> /\ mapped[1].result # <<>>) =>
    LET raw == mapped[1].result[1].score
    IN IF IsOutOfRangeNumber(raw)
       THEN mapped[1].score = raw
       ELSE Within0To100(mapped[1].score.num)

ComputationsOf(name, trace) ==
  {c \in 1..Len(computations) :
     computations[c].name = name /\ computations[c].trace = trace}

RequestsOf(name, trace) ==
  {k \in 1..Len(requests) :
     requests[k].name = name /\ requests[k].trace = trace}

\* C11: for any interleaving of requests for the same (artifact name, trace
\* identity), exactly one computation is started and every requester gets
\* the outcome of that computation, a request waiting only while it is in
\* flight; a request for another trace identity does not reuse the entry:
\* its outcome is computed from its own trace.
C11_SingleFlight ==
  \A name \in ArtifactNames, trace \in TraceIds :
    LET comps == ComputationsOf(name, trace)
        reqs == RequestsOf(name, trace)
    IN /\ Cardinality(comps) = IF reqs = {} THEN 0 ELSE 1
       /\ \A k \in reqs :
            \E c \in comps :
              /\ requests[k].outcome = computations[c].outcome
              /\ requests[k].outcome # <<>> =>
                   requests[k].outcome[1].of = <<name, trace>>

\* three requests of the same key, the second and third issued while the
\* computation the first started was in flight, all three with its failure
C11_Witness ==
  /\ Len(requests) = 3
  /\ Len(computations) = 1
  /\ requests[1].how = "started"
  /\ requests[2].how = "attached"
  /\ requests[3].how = "attached"
  /\ \A k \in 1..3 :
       /\ requests[k].outcome = computations[1].outcome
       /\ requests[k].outcome # <<>>
       /\ requests[k].outcome[1].failed

(***************************************************************************)
(* Properties of replaceStrings and generateReportHtml                     *)
(*                                                                         *)
(* Replacement without serial replacement is stated with marks: the text   *)
(* is a sequence of characters and marks; for each search string in list   *)
(* order, every occurrence among the characters (from the left, not        *)
(* overlapping) becomes one mark of that replacement; a mark matches no    *)
(* search string; in the end every mark becomes its replacement value.     *)
(***************************************************************************)
Char(c) == [ch |-> c, mark |-> 0]

Mark(k) == [ch |-> "", mark |-> k]

Marked(text) == [p \in 1..Len(text) |-> Char(text[p])]

\* the search string stands at position p of text, in characters only
StandsAt(text, search, p) ==
  /\ p + Len(search) - 1 <= Len(text)
  /\ \A j \in 1..Len(search) : text[p + j - 1] = Char(search[j])

\* text from position p on, the occurrences of search turned into Mark(k)
RECURSIVE MarkFrom(_, _, _, _)
MarkFrom(text, search, k, p) ==
  LET stands == {q \in p..Len(text) : StandsAt(text, search, q)}
  IN IF stands = {}
     THEN SubSeq(text, p, Len(text))
     ELSE LET q == CHOOSE q \in stands : \A r \in stands : q <= r
          IN SubSeq(text, p, q - 1) \o <<Mark(k)>>
               \o MarkFrom(text, search, k, q + Len(search))

\* the search strings from the k-th on, one after the other
RECURSIVE MarkAll(_, _, _)
MarkAll(text, replacements, k) ==
  IF k > Len(replacements) THEN text
  ELSE MarkAll(MarkFrom(text, replacements[k].search, k, 1), replacements, k + 1)

\* the characters as they are, the marks as their replacement values: the
\* elements of text from position lo to position hi
RECURSIVE Unmarked(_, _, _, _)
Unmarked(text, replacements, lo, hi) ==
  IF lo > hi THEN <<>>
  ELSE IF lo = hi
       THEN IF text[lo].mark = 0 THEN <<text[lo].ch>>
            ELSE replacements[text[lo].mark].replacement
       ELSE LET mid == (lo + hi) \div 2
            IN Unmarked(text, replacements, lo, mid)
                 \o Unmarked(text, replacements, mid + 1, hi)

ReplacedAtOnce(source, replacements) ==
  LET text == MarkAll(Marked(source), replacements, 1)
  IN Unmarked(text, replacements, 1, Len(text))

NoEmptySearch(replacements) ==
  \A k \in 1..Len(replacements) : replacements[k].search # <<>>

IsSubstring(needle, text) ==
  \E p \in 1..(Len(text) - Len(needle) + 1) :
    SubSeq(text, p, p + Len(needle) - 1) = needle

\* C15: replaceStrings replaces the occurrences of every search string
\* (none being empty) in the original source without serial replacement:
\* what a replacement brought in is not scanned again, so a search string
\* inside a replacement value stays as it is; with no replacements the
\* source comes back unchanged.  In generateReportHtml the JSON of the
\* report, sanitized, stands in the output as it is wherever the template
\* has the placeholder of the JSON, also when it holds a placeholder.
C15_NoSerialReplacement ==
  rsResult # <<>> =>
    /\ rsReplacements = <<>> => rsResult[1] = rsSource
    /\ NoEmptySearch(rsReplacements) =>
         rsResult[1] = ReplacedAtOnce(rsSource, rsReplacements)
    /\ (rsPc = "htmlDone" /\ IsSubstring(LIGHTHOUSE_JSON, rsSource)) =>
         IsSubstring(sanitizeJson(rsJson), rsResult[1])

\* a report whose JSON holds the placeholder of the renderer javascript: the
\* placeholder is in the output, in a template that has the placeholders
\* of the JSON and of the javascript
C15_Witness ==
  /\ rsPc = "htmlDone"
  /\ IsSubstring(LIGHTHOUSE_JAVASCRIPT, rsJson)
  /\ IsSubstring(LIGHTHOUSE_JSON, rsSource)
  /\ IsSubstring(LIGHTHOUSE_JAVASCRIPT, rsSource)
  /\ IsSubstring(LIGHTHOUSE_JAVASCRIPT, rsResult[1])

====
